---- MODULE Spec2Model ----
(***************************************************************************)
(* A model of gmt/clib/core.py: the LibGMT wrapper around the GMT C API.   *)
(*                                                                         *)
(* Every method of LibGMT is one action.  The native library is the        *)
(* environment: the constants it defines are fixed when it is loaded, and  *)
(* the result of every other native call is an input of the action that    *)
(* makes it.  The caller's arguments are in `input`.  Each action leaves   *)
(* in `last` the record of the call it modelled: the exception it raised   *)
(* (or none), the value it returned and the native calls and file          *)
(* operations it made, in order.                                           *)
(***************************************************************************)
EXTENDS Integers, Sequences, FiniteSets, TLC

VARIABLES
    session_id,   \* LibGMT._session_id: None or the handle of the session
    live,         \* native side: the handles GMT_Create_Session returned
                  \* that were not passed to GMT_Destroy_Session since
    scopes,       \* handles stored by the successful __enter__ calls whose
                  \* __exit__ has not run yet, innermost last
    phase,        \* "new", or the last of __enter__ (succeeded) / __exit__
    files,        \* the temporary log files that exist on disk
    missing,      \* the names the loaded libgmt does not define
    input,        \* the arguments the caller passes to the methods
    last          \* the record of the last call

vars == <<session_id, live, scopes, phase, files, missing, input, last>>

----------------------------------------------------------------------------
(* Bounds of the model. *)

MaxSessions == 2   \* sessions the native library can hold at once
MaxFiles == 2      \* temporary log files that can exist at once
MaxSections == 3   \* '|'-separated sections in a family string
MaxLog == 2        \* characters in a log file

----------------------------------------------------------------------------
(* Python values. *)

\* None, and the NULL pointer ctypes turns into None (restype c_void_p).
None == 0

\* The value GMT_Get_Enum returns for a name it does not know.
EnumNotFound == -99999

NoError == "no exception"
GMTCLibError == "GMTCLibError"
GMTCLibNoSessionError == "GMTCLibNoSessionError"

\* LibGMT.data_families, data_vias, data_geometries, data_modes.
data_families == {"GMT_IS_DATASET", "GMT_IS_GRID", "GMT_IS_PALETTE",
                  "GMT_IS_MATRIX", "GMT_IS_VECTOR"}
data_vias == {"GMT_VIA_MATRIX", "GMT_VIA_VECTOR"}
data_geometries == {"GMT_IS_NONE", "GMT_IS_POINT", "GMT_IS_LINE",
                    "GMT_IS_POLYGON", "GMT_IS_PLP", "GMT_IS_SURFACE"}
data_modes == {"GMT_CONTAINER_ONLY", "GMT_OUTPUT"}

\* The names the wrapper looks up, in one list; the native library's value
\* of a name it defines is taken to be its place in the list.
EnumNames ==
    << "GMT_PAD_DEFAULT", "GMT_SESSION_EXTERNAL", "GMT_LOG_ONCE",
       "GMT_IS_FILE", "GMT_MODULE_CMD", "GMT_GRID_NODE_REG",
       "GMT_IS_DATASET", "GMT_IS_GRID", "GMT_IS_PALETTE", "GMT_IS_MATRIX",
       "GMT_IS_VECTOR", "GMT_VIA_MATRIX", "GMT_VIA_VECTOR",
       "GMT_IS_NONE", "GMT_IS_POINT", "GMT_IS_LINE", "GMT_IS_POLYGON",
       "GMT_IS_PLP", "GMT_IS_SURFACE", "GMT_CONTAINER_ONLY", "GMT_OUTPUT" >>

KnownNames == {EnumNames[i] : i \in 1..Len(EnumNames)}

----------------------------------------------------------------------------
(* The record of a call. *)

\* One native call or file operation: the function, its argument of
\* interest and what it returned.
Ev(fn, arg, ret) == [fn |-> fn, arg |-> arg, ret |-> ret]

NoMsg == [kind |-> "", module |-> "", status |-> 0, log |-> <<>>]

\* The outcome of a (part of a) call: the exception raised or NoError, the
\* value returned, the message of the exception, and the calls made.
Raise(exc, msg, trace) ==
    [exc |-> exc, val |-> None, msg |-> msg, trace |-> trace]

Return(val, trace) ==
    [exc |-> NoError, val |-> val, msg |-> NoMsg, trace |-> trace]

----------------------------------------------------------------------------
(* The native library. *)

\* GMT_Get_Enum: the value of a constant, or -99999 for a name the library
\* does not define.
GMT_Get_Enum(name) ==
    IF name \in missing \/ name \notin KnownNames
    THEN EnumNotFound
    ELSE CHOOSE i \in 1..Len(EnumNames) : EnumNames[i] = name

\* What GMT_Create_Session may return: NULL, or a pointer to a new session,
\* which differs from every live one (the lowest such: the model's handles
\* are interchangeable).
CreateSessionReturns ==
    {None} \cup {h \in 1..MaxSessions :
                    h \notin live /\ \A g \in 1..(h - 1) : g \in live}

\* What GMT_Create_Data may return: NULL, or a pointer to the container.
CreateDataReturns == {None, 1}

\* Status codes of GMT_Destroy_Session, GMT_Handle_Messages and
\* GMT_Call_Module (a C int; 0 is success).
Statuses == {-1, 0, 1}

----------------------------------------------------------------------------
(* LibGMT.current_session (property) and get_constant. *)

current_session(sid) ==
    IF sid = None
    THEN Raise(GMTCLibNoSessionError, NoMsg, <<>>)
    ELSE Return(sid, <<>>)

\* get_constant without the test for the sentinel.
get_constant_no_check(name) ==
    LET value == GMT_Get_Enum(name)
    IN  Return(value, <<Ev("GMT_Get_Enum", name, value)>>)

get_constant(name) ==
    LET value == GMT_Get_Enum(name)
        trace == <<Ev("GMT_Get_Enum", name, value)>>
    IN  IF value = EnumNotFound
        THEN Raise(GMTCLibError, NoMsg, trace)
        ELSE Return(value, trace)

----------------------------------------------------------------------------
(* Session life cycle. *)

\* create_session: two constants, then GMT_Create_Session, whose result is
\* cs_ret.
create_session(cs_ret) ==
    LET padding == get_constant("GMT_PAD_DEFAULT")
        session_type == get_constant("GMT_SESSION_EXTERNAL")
        t2 == padding.trace \o session_type.trace
        t3 == Append(t2, Ev("GMT_Create_Session", "gmt-python-session", cs_ret))
    IN  IF padding.exc # NoError THEN padding
        ELSE IF session_type.exc # NoError
        THEN Raise(session_type.exc, NoMsg, t2)
        ELSE IF cs_ret = None
        THEN Raise(GMTCLibError, NoMsg, t3)
        ELSE Return(cs_ret, t3)

\* destroy_session: GMT_Destroy_Session returns ds_status.
destroy_session(session, ds_status) ==
    LET trace == <<Ev("GMT_Destroy_Session", session, ds_status)>>
    IN  IF ds_status # 0
        THEN Raise(GMTCLibError, NoMsg, trace)
        ELSE Return(None, trace)

\* __enter__: the outcome, with the _session_id it leaves.
__enter__(sid, cs_ret) ==
    LET r == create_session(cs_ret)
    IN  [out |-> r, session_id |-> IF r.exc = NoError THEN r.val ELSE sid]

\* __exit__ with the session cleared only when destroy_session returned.
__exit__no_finally(sid, ds_status) ==
    LET cur == current_session(sid)
        r == IF cur.exc # NoError THEN cur
             ELSE destroy_session(cur.val, ds_status)
    IN  [out |-> r, session_id |-> IF r.exc = NoError THEN None ELSE sid]

\* __exit__: try: destroy_session(current_session) finally: clear.
__exit__(sid, ds_status) ==
    LET cur == current_session(sid)
        r == IF cur.exc # NoError THEN cur
             ELSE destroy_session(cur.val, ds_status)
    IN  [out |-> r, session_id |-> None]


----------------------------------------------------------------------------
(* Strings.  A family string is a sequence of tokens: a name, or the       *)
(* separator "|"; a section of it is the name N when it is <<N>>.  A log   *)
(* file's content is a sequence of characters, " " for white space.        *)

Bar == "|"

SeqsUpTo(S, n) == UNION {[1..k -> S] : k \in 0..n}

\* What the caller writes in a section: nothing, a family name, a via name.
SectionTexts == {<<>>, <<"GMT_IS_GRID">>, <<"GMT_VIA_MATRIX">>}

RECURSIVE Join(_)
\* '|'.join(sections)
Join(sections) ==
    IF Len(sections) = 1 THEN sections[1]
    ELSE sections[1] \o <<Bar>> \o Join(Tail(sections))

\* The family strings of 1 to MaxSections sections.
FamilyStrings ==
    {Join(secs) : secs \in SeqsUpTo(SectionTexts, MaxSections) \ {<<>>}}

LogContents == SeqsUpTo({" ", "e"}, MaxLog)

RECURSIVE Split(_)
\* str.split('|'): the sections between the separators, at least one.
Split(s) ==
    IF \A i \in 1..Len(s) : s[i] # Bar
    THEN <<s>>
    ELSE LET i == CHOOSE k \in 1..Len(s) :
                      s[k] = Bar /\ \A j \in 1..(k - 1) : s[j] # Bar
         IN  <<SubSeq(s, 1, i - 1)>> \o Split(SubSeq(s, i + 1, Len(s)))

\* 'section in names' for a list of names.
IsIn(section, names) == Len(section) = 1 /\ section[1] \in names

RECURSIVE Strip(_)
\* str.strip(): without the white space at both ends.
Strip(s) ==
    IF s = <<>> THEN s
    ELSE IF s[1] = " " THEN Strip(Tail(s))
    ELSE IF s[Len(s)] = " " THEN Strip(SubSeq(s, 1, Len(s) - 1))
    ELSE s

----------------------------------------------------------------------------
(* log_to_file, a generator-based context manager, and call_module. *)

\* NamedTemporaryFile(delete=False): a name no existing file has.
NewFile(fs) ==
    CHOOSE f \in 1..MaxFiles :
        f \notin fs /\ \A g \in 1..(f - 1) : g \in fs

\* log_to_file up to its yield: the temporary file is created and closed,
\* then logging is redirected to it; GMT_Handle_Messages returns hm_status.
\* The outcome, with the files that exist and the file created.
log_to_file_setup(sid, fs, hm_status) ==
    LET logfile == NewFile(fs)
        fs1 == fs \cup {logfile}
        t0 == <<Ev("NamedTemporaryFile", logfile, 0)>>
        cur == current_session(sid)
        once == get_constant("GMT_LOG_ONCE")
        isfile == get_constant("GMT_IS_FILE")
        t1 == t0 \o once.trace
        t2 == t1 \o isfile.trace
        t3 == Append(t2, Ev("GMT_Handle_Messages", logfile, hm_status))
        msg == [kind |-> "logging", module |-> "", status |-> hm_status,
                log |-> <<>>]
        out == IF cur.exc # NoError THEN Raise(cur.exc, NoMsg, t0)
               ELSE IF once.exc # NoError THEN Raise(once.exc, NoMsg, t1)
               ELSE IF isfile.exc # NoError THEN Raise(isfile.exc, NoMsg, t2)
               ELSE IF hm_status # 0 THEN Raise(GMTCLibError, msg, t3)
               ELSE Return(logfile, t3)
    IN  [out |-> out, files |-> fs1, file |-> logfile]

\* log_to_file after its yield.  When the body of the 'with' raised, the
\* exception is thrown into the generator at the yield and leaves it; else
\* the generator resumes and removes the file.
log_to_file_cleanup(fs, logfile, body_raised) ==
    IF body_raised
    THEN [trace |-> <<>>, files |-> fs]
    ELSE [trace |-> <<Ev("os.remove", logfile, 0)>>, files |-> fs \ {logfile}]

\* 'with self.log_to_file() as logfile: body', the body raising or not.
log_to_file(sid, fs, hm_status, body_raised) ==
    LET setup == log_to_file_setup(sid, fs, hm_status)
        clean == log_to_file_cleanup(setup.files, setup.file, body_raised)
        trace == setup.out.trace \o clean.trace
    IN  IF setup.out.exc # NoError THEN setup
        ELSE [out |-> IF body_raised THEN Raise("BodyError", NoMsg, trace)
                      ELSE Return(None, trace),
              files |-> clean.files, file |-> setup.file]

\* ModuleError with the test of the log inverted.
ModuleError_inverted(module, status, log) ==
    IF log # <<>>
    THEN [kind |-> "invalid module", module |-> module, status |-> 0,
          log |-> <<>>]
    ELSE [kind |-> "failed", module |-> module, status |-> status,
          log |-> log]

\* The message of the GMTCLibError call_module raises.
ModuleError(module, status, log) ==
    IF log = <<>>
    THEN [kind |-> "invalid module", module |-> module, status |-> 0,
          log |-> <<>>]
    ELSE [kind |-> "failed", module |-> module, status |-> status,
          log |-> log]

\* call_module without 'session = self.current_session' ahead of the
\* 'with': the session is first read inside log_to_file.
call_module_late_session(sid, fs, module, hm_status, cm_status, content) ==
    LET mode == get_constant("GMT_MODULE_CMD")
        setup == log_to_file_setup(sid, fs, hm_status)
        logfile == setup.file
        t1 == mode.trace \o setup.out.trace
        t2 == Append(t1, Ev("GMT_Call_Module", module, cm_status))
        t3 == t2 \o <<Ev("open", logfile,
                          IF logfile \in setup.files THEN 1 ELSE 0),
                       Ev("read", logfile, content)>>
        log == Strip(content)
        clean == log_to_file_cleanup(setup.files, logfile, FALSE)
        t4 == t3 \o clean.trace
    IN  IF mode.exc # NoError
        THEN [out |-> mode, files |-> fs, file |-> None]
        ELSE IF setup.out.exc # NoError
        THEN [out |-> Raise(setup.out.exc, setup.out.msg, t1),
              files |-> setup.files, file |-> logfile]
        ELSE [out |-> IF cm_status # 0
                      THEN Raise(GMTCLibError,
                                 ModuleError(module, cm_status, log), t4)
                      ELSE Return(None, t4),
              files |-> clean.files, file |-> logfile]

\* call_module raising inside the 'with', so that the exception passes
\* through log_to_file.
call_module_raise_inside(sid, fs, module, hm_status, cm_status, content) ==
    LET mode == get_constant("GMT_MODULE_CMD")
        session == current_session(sid)
        setup == log_to_file_setup(sid, fs, hm_status)
        logfile == setup.file
        t1 == mode.trace \o setup.out.trace
        t2 == Append(t1, Ev("GMT_Call_Module", module, cm_status))
        t3 == t2 \o <<Ev("open", logfile,
                          IF logfile \in setup.files THEN 1 ELSE 0),
                       Ev("read", logfile, content)>>
        log == Strip(content)
        clean == log_to_file_cleanup(setup.files, logfile, cm_status # 0)
        t4 == t3 \o clean.trace
    IN  IF mode.exc # NoError
        THEN [out |-> mode, files |-> fs, file |-> None]
        ELSE IF session.exc # NoError
        THEN [out |-> Raise(session.exc, NoMsg, mode.trace), files |-> fs,
              file |-> None]
        ELSE IF setup.out.exc # NoError
        THEN [out |-> Raise(setup.out.exc, setup.out.msg, t1),
              files |-> setup.files, file |-> logfile]
        ELSE [out |-> IF cm_status # 0
                      THEN Raise(GMTCLibError,
                                 ModuleError(module, cm_status, log), t4)
                      ELSE Return(None, t4),
              files |-> clean.files, file |-> logfile]

\* call_module.  GMT_Handle_Messages returns hm_status, GMT_Call_Module
\* cm_status, and the log file then holds content.
call_module(sid, fs, module, hm_status, cm_status, content) ==
    LET mode == get_constant("GMT_MODULE_CMD")
        session == current_session(sid)
        setup == log_to_file_setup(sid, fs, hm_status)
        logfile == setup.file
        t1 == mode.trace \o setup.out.trace
        t2 == Append(t1, Ev("GMT_Call_Module", module, cm_status))
        t3 == t2 \o <<Ev("open", logfile,
                          IF logfile \in setup.files THEN 1 ELSE 0),
                       Ev("read", logfile, content)>>
        log == Strip(content)
        clean == log_to_file_cleanup(setup.files, logfile, FALSE)
        t4 == t3 \o clean.trace
    IN  IF mode.exc # NoError
        THEN [out |-> mode, files |-> fs, file |-> None]
        ELSE IF session.exc # NoError
        THEN [out |-> Raise(session.exc, NoMsg, mode.trace), files |-> fs,
              file |-> None]
        ELSE IF setup.out.exc # NoError
        THEN [out |-> Raise(setup.out.exc, setup.out.msg, t1),
              files |-> setup.files, file |-> logfile]
        ELSE [out |-> IF cm_status # 0
                      THEN Raise(GMTCLibError,
                                 ModuleError(module, cm_status, log), t4)
                      ELSE Return(None, t4),
              files |-> clean.files, file |-> logfile]

----------------------------------------------------------------------------
(* _parse_data_family and create_data. *)

\* _parse_data_family dropping the value of the via.
_parse_data_family_no_via(family) ==
    LET parts == Split(family)
        family_name == parts[1]
        family_value == get_constant(family_name[1])
        via_name == parts[2]
        via_value == get_constant(via_name[1])
        t2 == family_value.trace \o via_value.trace
    IN  IF Len(parts) > 2 THEN Raise(GMTCLibError, NoMsg, <<>>)
        ELSE IF ~IsIn(family_name, data_families)
        THEN Raise(GMTCLibError, NoMsg, <<>>)
        ELSE IF family_value.exc # NoError THEN family_value
        ELSE IF Len(parts) = 2
        THEN IF ~IsIn(via_name, data_vias)
             THEN Raise(GMTCLibError, NoMsg, family_value.trace)
             ELSE IF via_value.exc # NoError
             THEN Raise(via_value.exc, NoMsg, t2)
             ELSE Return(family_value.val, t2)
        ELSE Return(family_value.val + 0, family_value.trace)

_parse_data_family(family) ==
    LET parts == Split(family)
        family_name == parts[1]
        family_value == get_constant(family_name[1])
        via_name == parts[2]
        via_value == get_constant(via_name[1])
        t2 == family_value.trace \o via_value.trace
    IN  IF Len(parts) > 2 THEN Raise(GMTCLibError, NoMsg, <<>>)
        ELSE IF ~IsIn(family_name, data_families)
        THEN Raise(GMTCLibError, NoMsg, <<>>)
        ELSE IF family_value.exc # NoError THEN family_value
        ELSE IF Len(parts) = 2
        THEN IF ~IsIn(via_name, data_vias)
             THEN Raise(GMTCLibError, NoMsg, family_value.trace)
             ELSE IF via_value.exc # NoError
             THEN Raise(via_value.exc, NoMsg, t2)
             ELSE Return(family_value.val + via_value.val, t2)
        ELSE Return(family_value.val + 0, family_value.trace)

\* create_data without the test of the geometry.
create_data_no_geometry_test(sid, family, geometry, mode, cd_ret) ==
    LET family_int == _parse_data_family(family)
        registration == get_constant("GMT_GRID_NODE_REG")
        pad == get_constant("GMT_PAD_DEFAULT")
        session == current_session(sid)
        geometry_int == get_constant(geometry)
        mode_int == get_constant(mode)
        t1 == family_int.trace \o registration.trace
        t2 == t1 \o pad.trace
        t3 == t2 \o geometry_int.trace
        t4 == t3 \o mode_int.trace
        t5 == Append(t4, Ev("GMT_Create_Data", family_int.val, cd_ret))
    IN  IF family_int.exc # NoError THEN family_int
        ELSE IF mode \notin data_modes
        THEN Raise(GMTCLibError, NoMsg, family_int.trace)
        ELSE IF registration.exc # NoError
        THEN Raise(registration.exc, NoMsg, t1)
        ELSE IF pad.exc # NoError THEN Raise(pad.exc, NoMsg, t2)
        ELSE IF session.exc # NoError THEN Raise(session.exc, NoMsg, t2)
        ELSE IF geometry_int.exc # NoError
        THEN Raise(geometry_int.exc, NoMsg, t3)
        ELSE IF mode_int.exc # NoError THEN Raise(mode_int.exc, NoMsg, t4)
        ELSE IF cd_ret = None THEN Raise(GMTCLibError, NoMsg, t5)
        ELSE Return(cd_ret, t5)

\* create_data without the optional dim, ranges, inc, registration and pad;
\* GMT_Create_Data returns cd_ret.
create_data(sid, family, geometry, mode, cd_ret) ==
    LET family_int == _parse_data_family(family)
        registration == get_constant("GMT_GRID_NODE_REG")
        pad == get_constant("GMT_PAD_DEFAULT")
        session == current_session(sid)
        geometry_int == get_constant(geometry)
        mode_int == get_constant(mode)
        t1 == family_int.trace \o registration.trace
        t2 == t1 \o pad.trace
        t3 == t2 \o geometry_int.trace
        t4 == t3 \o mode_int.trace
        t5 == Append(t4, Ev("GMT_Create_Data", family_int.val, cd_ret))
    IN  IF family_int.exc # NoError THEN family_int
        ELSE IF mode \notin data_modes
        THEN Raise(GMTCLibError, NoMsg, family_int.trace)
        ELSE IF geometry \notin data_geometries
        THEN Raise(GMTCLibError, NoMsg, family_int.trace)
        ELSE IF registration.exc # NoError
        THEN Raise(registration.exc, NoMsg, t1)
        ELSE IF pad.exc # NoError THEN Raise(pad.exc, NoMsg, t2)
        ELSE IF session.exc # NoError THEN Raise(session.exc, NoMsg, t2)
        ELSE IF geometry_int.exc # NoError
        THEN Raise(geometry_int.exc, NoMsg, t3)
        ELSE IF mode_int.exc # NoError THEN Raise(mode_int.exc, NoMsg, t4)
        ELSE IF cd_ret = None THEN Raise(GMTCLibError, NoMsg, t5)
        ELSE Return(cd_ret, t5)

----------------------------------------------------------------------------
(* The actions: one per method a caller can use. *)

\* The record of a call: its outcome, the state it started in, the
\* temporary file it created (log_to_file, call_module) and the handle the
\* matching __enter__ had stored (__exit__).
Last(op, out, file, stored) ==
    [op |-> op, exc |-> out.exc, val |-> out.val, msg |-> out.msg,
     trace |-> out.trace, pre_session |-> session_id, pre_files |-> files,
     file |-> file, stored |-> stored]

\* The handles passed to GMT_Destroy_Session in a trace.
DestroyedIn(trace) ==
    {trace[i].arg : i \in {j \in 1..Len(trace) :
                              trace[j].fn = "GMT_Destroy_Session"}}

\* The handles GMT_Create_Session returned in a trace.
CreatedIn(trace) ==
    {trace[i].ret : i \in {j \in 1..Len(trace) :
                              trace[j].fn = "GMT_Create_Session"}} \ {None}

\* 'with lib:' is entered (or __enter__ is called).
Enter ==
    /\ \E cs_ret \in CreateSessionReturns :
        LET e == __enter__(session_id, cs_ret)
            ok == e.out.exc = NoError
        IN  /\ session_id' = e.session_id
            /\ live' = live \cup CreatedIn(e.out.trace)
            /\ scopes' = IF ok THEN Append(scopes, e.out.val) ELSE scopes
            /\ phase' = IF ok THEN "entered" ELSE phase
            /\ last' = Last("__enter__", e.out, None, None)
    /\ UNCHANGED <<files, missing, input>>

\* A 'with lib:' block is left (or __exit__ is called).
Exit ==
    /\ \E ds_status \in Statuses :
        LET x == __exit__(session_id, ds_status)
        IN  /\ session_id' = x.session_id
            /\ live' = live \ DestroyedIn(x.out.trace)
            /\ last' = Last("__exit__", x.out, None,
                            IF scopes = <<>> THEN None
                            ELSE scopes[Len(scopes)])
    /\ scopes' = IF scopes = <<>> THEN scopes
                 ELSE SubSeq(scopes, 1, Len(scopes) - 1)
    /\ phase' = "exited"
    /\ UNCHANGED <<files, missing, input>>

\* lib.current_session is read.
ReadSession ==
    /\ last' = Last("current_session", current_session(session_id), None,
                    None)
    /\ UNCHANGED <<session_id, live, scopes, phase, files, missing, input>>

\* lib.get_constant(name)
GetConstant ==
    /\ last' = Last("get_constant", get_constant(input.name), None, None)
    /\ UNCHANGED <<session_id, live, scopes, phase, files, missing, input>>

\* with lib.log_to_file(): body.  GMT_Handle_Messages is called only in an
\* open session, and the body runs only after it has returned 0.
LogToFile ==
    /\ files # 1..MaxFiles
    /\ \E hm_status \in IF session_id # None THEN Statuses ELSE {0} :
       \E body_raised \in IF session_id # None /\ hm_status = 0
                           THEN BOOLEAN ELSE {FALSE} :
        LET r == log_to_file(session_id, files, hm_status, body_raised)
        IN  /\ files' = r.files
            /\ last' = Last("log_to_file", r.out, r.file, None)
    /\ UNCHANGED <<session_id, live, scopes, phase, missing, input>>

\* lib.call_module(module, args).  GMT_Handle_Messages is called only in
\* an open session; GMT_Call_Module is called, and the log read, only
\* after GMT_Handle_Messages has returned 0.
CallModule ==
    /\ files # 1..MaxFiles
    /\ \E hm_status \in IF session_id # None THEN Statuses ELSE {0} :
       \E cm_status \in IF session_id # None /\ hm_status = 0
                         THEN Statuses ELSE {0} :
       \E content \in IF session_id # None /\ hm_status = 0
                       THEN LogContents ELSE {<<>>} :
        LET r == call_module(session_id, files, input.module, hm_status,
                             cm_status, content)
        IN  /\ files' = r.files
            /\ last' = Last("call_module", r.out, r.file, None)
    /\ UNCHANGED <<session_id, live, scopes, phase, missing, input>>

\* lib._parse_data_family(family)
ParseDataFamily ==
    /\ last' = Last("_parse_data_family", _parse_data_family(input.family),
                    None, None)
    /\ UNCHANGED <<session_id, live, scopes, phase, files, missing, input>>

\* lib.create_data(family, geometry, mode)
CreateData ==
    /\ \E cd_ret \in CreateDataReturns :
        last' = Last("create_data",
                     create_data(session_id, input.family, input.geometry,
                                 input.mode, cd_ret), None, None)
    /\ UNCHANGED <<session_id, live, scopes, phase, files, missing, input>>

----------------------------------------------------------------------------
(* The states after LibGMT() and the specifications. *)

Modules == {"figure", "nosuchmodule"}
Geometries == {"GMT_IS_POINT", "GMT_IS_CIRCLE"}
Modes == {"GMT_OUTPUT", "GMT_INPUT"}
Names == KnownNames \cup {"GMT_NOT_A_CONSTANT"}

\* The constants the methods look up for these arguments, besides the name
\* given to get_constant.
LookedUp ==
    { "GMT_PAD_DEFAULT", "GMT_SESSION_EXTERNAL", "GMT_LOG_ONCE",
      "GMT_IS_FILE", "GMT_MODULE_CMD", "GMT_GRID_NODE_REG" }
    \cup ((({s[1] : s \in SectionTexts \ {<<>>}} \cup Geometries)
               \cup Modes) \cap KnownNames)

\* The libraries the model loads: the complete one, and each one that
\* lacks a single constant of those.  (A call ends at the first constant
\* the library lacks.)
Libraries == {{}} \cup {{n} : n \in LookedUp}

NoInput == [name |-> "", module |-> "", family |-> <<>>, geometry |-> "",
            mode |-> ""]

\* __init__, given the arguments the caller will use.
Constructed(in) ==
    /\ session_id = None
    /\ live = {}
    /\ scopes = <<>>
    /\ phase = "new"
    /\ files = {}
    /\ missing \in Libraries
    /\ input = in
    /\ last = [op |-> "__init__", exc |-> NoError, val |-> None,
               msg |-> NoMsg, trace |-> <<>>, pre_session |-> None,
               pre_files |-> {}, file |-> None, stored |-> None]

\* The session life cycle and the constants.
InitSession == \E n \in Names : Constructed([NoInput EXCEPT !.name = n])

NextSession == Enter \/ Exit \/ ReadSession \/ GetConstant

SpecSession == InitSession /\ [][NextSession]_vars

\* Logging and module calls.
InitLog == \E m \in Modules : Constructed([NoInput EXCEPT !.module = m])

NextLog == Enter \/ Exit \/ LogToFile \/ CallModule

SpecLog == InitLog /\ [][NextLog]_vars

\* The family parser, on every family string.
InitParse == \E f \in FamilyStrings : Constructed([NoInput EXCEPT !.family = f])

NextParse == ParseDataFamily

SpecParse == InitParse /\ [][NextParse]_vars

\* Data containers, on every family string, geometry and mode.
InitData ==
    \E f \in FamilyStrings, g \in Geometries, m \in Modes :
        Constructed([NoInput EXCEPT !.family = f, !.geometry = g, !.mode = m])

NextData == Enter \/ Exit \/ CreateData

SpecData == InitData /\ [][NextData]_vars

\* The methods that need a session, with arguments that are valid.
ValidFamilies == {<<"GMT_IS_GRID">>, <<"GMT_IS_GRID", Bar, "GMT_VIA_MATRIX">>}

Init ==
    \E m \in Modules, f \in ValidFamilies :
        Constructed([NoInput EXCEPT !.module = m, !.family = f,
                                    !.geometry = "GMT_IS_POINT",
                                    !.mode = "GMT_OUTPUT"])

Next ==
    \/ Enter
    \/ Exit
    \/ CallModule
    \/ CreateData

Spec == Init /\ [][Next]_vars

----------------------------------------------------------------------------
(* The properties. *)

\* The places in the last call's trace where fn was called.
Calls(fn) == {i \in 1..Len(last.trace) : last.trace[i].fn = fn}

\* What the (single) call of fn in the last call's trace returned.
RetOf(fn) == last.trace[CHOOSE i \in Calls(fn) : TRUE].ret

\* A family string that is not 'F' or 'F|V' with F a family and V a via.
InvalidFamily(family) ==
    LET parts == Split(family)
    IN  \/ Len(parts) > 2
        \/ ~IsIn(parts[1], data_families)
        \/ Len(parts) = 2 /\ ~IsIn(parts[2], data_vias)

InvalidInput ==
    \/ InvalidFamily(input.family)
    \/ input.geometry \notin data_geometries
    \/ input.mode \notin data_modes

\* The lookups of the last call that the library answered with -99999.
FailedLookups ==
    {i \in Calls("GMT_Get_Enum") : last.trace[i].ret = EnumNotFound}

\* C1: the session handle cannot be read before __enter__ has succeeded or
\* after __exit__ has run, whether or not destroy_session raised: reading
\* current_session then raises GMTCLibNoSessionError and returns nothing.
\* When it can be read, a successful __enter__ was the last of the two and
\* the handle is the one create_session returned to it.
C1_SessionReadableOnlyInScope ==
    LET r == current_session(session_id)
    IN  /\ phase \in {"new", "exited"} =>
            r.exc = GMTCLibNoSessionError /\ r.val = None
        /\ r.exc = NoError =>
            /\ phase = "entered"
            /\ scopes # <<>>
            /\ r.val = scopes[Len(scopes)]
        /\ last.op = "current_session" =>
            last.exc = r.exc /\ last.val = r.val

\* __exit__ has run on an open session, destroy_session raised, and the
\* handle is gone.
C1_Witness ==
    /\ last.op = "__exit__"
    /\ last.pre_session # None
    /\ last.exc = GMTCLibError
    /\ current_session(session_id).exc = GMTCLibNoSessionError

\* C2: once log_to_file or call_module has returned or raised, the
\* temporary log file it created no longer exists.
C2_LogFileAlwaysDeleted ==
    (last.op \in {"log_to_file", "call_module"} /\ last.file # None) =>
        last.file \notin files

\* C3 as stated: create_data with an invalid family, geometry or mode
\* raises GMTCLibError without having called GMT_Get_Enum or
\* GMT_Create_Data.
C3_RejectedBeforeAnyNativeCall ==
    (last.op = "create_data" /\ InvalidInput) =>
        /\ last.exc = GMTCLibError
        /\ Calls("GMT_Get_Enum") = {}
        /\ Calls("GMT_Create_Data") = {}

\* C3 as amended: create_data with an invalid family, geometry or mode
\* raises GMTCLibError before GMT_Create_Data is called; by then it has
\* called nothing but GMT_Get_Enum, at most twice and only for a family
\* name and a via name that passed their tests, and nothing at all when
\* the family has more than 2 sections or its family name is invalid.
C3_RejectedBeforeCreateData ==
    (last.op = "create_data" /\ InvalidInput) =>
        LET parts == Split(input.family)
        IN  /\ last.exc = GMTCLibError
            /\ Calls("GMT_Create_Data") = {}
            /\ Len(last.trace) <= 2
            /\ \A i \in 1..Len(last.trace) :
                /\ last.trace[i].fn = "GMT_Get_Enum"
                /\ <<last.trace[i].arg>> = parts[i]
                /\ last.trace[i].arg \in
                       (IF i = 1 THEN data_families ELSE data_vias)
            /\ (Len(parts) > 2 \/ ~IsIn(parts[1], data_families)) =>
                   last.trace = <<>>

\* create_data, in an open session, has rejected a mode that is not valid
\* after looking up the family, which is valid.
C3_Witness ==
    /\ last.op = "create_data"
    /\ last.pre_session # None
    /\ ~InvalidFamily(input.family)
    /\ input.geometry \in data_geometries
    /\ input.mode \notin data_modes
    /\ last.exc = GMTCLibError
    /\ Calls("GMT_Get_Enum") # {}

\* C4: when the block of a successful __enter__ is left, __exit__ calls
\* GMT_Destroy_Session exactly once, with the handle that __enter__ stored,
\* and _session_id is None afterwards; a non-zero status is raised as
\* GMTCLibError.
C4_SessionReleasedOnExit ==
    (last.op = "__exit__" /\ last.stored # None) =>
        /\ Cardinality(Calls("GMT_Destroy_Session")) = 1
        /\ \A i \in Calls("GMT_Destroy_Session") :
            /\ last.trace[i].arg = last.stored
            /\ last.trace[i].ret # 0 => last.exc = GMTCLibError
        /\ session_id = None

\* C5 as stated: with no open session, call_module, and create_data with
\* valid arguments, raise GMTCLibNoSessionError, call none of
\* GMT_Handle_Messages, GMT_Call_Module and GMT_Create_Data and create no
\* temporary file.
C5_NoSessionError ==
    (/\ last.op \in {"call_module", "create_data"}
     /\ last.pre_session = None
     /\ ~InvalidInput) =>
        /\ last.exc = GMTCLibNoSessionError
        /\ Calls("GMT_Handle_Messages") = {}
        /\ Calls("GMT_Call_Module") = {}
        /\ Calls("GMT_Create_Data") = {}
        /\ Calls("NamedTemporaryFile") = {}
        /\ files = last.pre_files

\* C5 as amended: with no open session, call_module, and create_data with
\* valid arguments, raise GMTCLibNoSessionError unless a constant they look
\* up before they read the session is unknown to the library, and
\* GMTCLibError then; either way they call none of GMT_Handle_Messages,
\* GMT_Call_Module and GMT_Create_Data and create no temporary file.
C5_NoSessionOrUnknownConstant ==
    (/\ last.op \in {"call_module", "create_data"}
     /\ last.pre_session = None
     /\ ~InvalidInput) =>
        /\ FailedLookups = {} => last.exc = GMTCLibNoSessionError
        /\ FailedLookups # {} => last.exc = GMTCLibError
        /\ Calls("GMT_Handle_Messages") = {}
        /\ Calls("GMT_Call_Module") = {}
        /\ Calls("GMT_Create_Data") = {}
        /\ Calls("NamedTemporaryFile") = {}
        /\ files = last.pre_files

\* call_module has raised GMTCLibNoSessionError after the 'with' block was
\* left.
C5_Witness ==
    /\ last.op = "call_module"
    /\ phase = "exited"
    /\ last.pre_session = None
    /\ last.exc = GMTCLibNoSessionError

\* C6: in an open session, once logging is redirected, call_module raises
\* GMTCLibError exactly when GMT_Call_Module returns a non-zero status and
\* returns otherwise; the message carries the status and the stripped log
\* text when that is not empty, and reports an invalid module name when it
\* is.
C6_CallModuleStatus ==
    (/\ last.op = "call_module"
     /\ last.pre_session # None
     /\ Calls("GMT_Handle_Messages") # {}
     /\ RetOf("GMT_Handle_Messages") = 0) =>
        LET status == RetOf("GMT_Call_Module")
            log == Strip(RetOf("read"))
        IN  /\ Cardinality(Calls("GMT_Call_Module")) = 1
            /\ last.exc = (IF status # 0 THEN GMTCLibError ELSE NoError)
            /\ (status # 0 /\ log # <<>>) =>
                /\ last.msg.kind = "failed"
                /\ last.msg.module = input.module
                /\ last.msg.status = status
                /\ last.msg.log = log
            /\ (status # 0 /\ log = <<>>) =>
                /\ last.msg.kind = "invalid module"
                /\ last.msg.module = input.module

\* call_module has raised with the text of a log that had white space
\* around it.
C6_Witness ==
    /\ last.op = "call_module"
    /\ last.exc = GMTCLibError
    /\ Calls("GMT_Call_Module") # {}
    /\ RetOf("GMT_Call_Module") # 0
    /\ RetOf("read") = <<" ", "e">>
    /\ last.msg.log = <<"e">>

\* C7: get_constant calls GMT_Get_Enum once with the name; it raises
\* GMTCLibError when that returns -99999 and returns the same integer
\* otherwise, with or without an open session, and leaves _session_id as it
\* was.
C7_GetConstantPassThrough ==
    last.op = "get_constant" =>
        /\ Len(last.trace) = 1
        /\ last.trace[1].fn = "GMT_Get_Enum"
        /\ last.trace[1].arg = input.name
        /\ last.trace[1].ret = EnumNotFound => last.exc = GMTCLibError
        /\ last.trace[1].ret # EnumNotFound =>
            last.exc = NoError /\ last.val = last.trace[1].ret
        /\ session_id = last.pre_session

\* get_constant has raised for an unknown name, outside a session.
C7_Witness ==
    /\ last.op = "get_constant"
    /\ session_id = None
    /\ last.trace[1].ret = EnumNotFound
    /\ last.exc = GMTCLibError

\* C8: when GMT_Call_Module returns a non-zero status, call_module opens
\* and reads the log file while it exists, then removes it, and raises
\* GMTCLibError after that: the file is gone when the error reaches the
\* caller and the message holds what was read.
C8_ReadThenRemoveThenRaise ==
    (/\ last.op = "call_module"
     /\ Calls("GMT_Call_Module") # {}
     /\ RetOf("GMT_Call_Module") # 0) =>
        /\ last.exc = GMTCLibError
        /\ \E c \in Calls("GMT_Call_Module"), o \in Calls("open"),
              r \in Calls("read"), d \in Calls("os.remove") :
            /\ c < o /\ o < r /\ r < d
            /\ d = Len(last.trace)
            /\ last.trace[o].ret = 1
            /\ last.trace[o].arg = last.file
            /\ last.trace[d].arg = last.file
            /\ last.msg.log = (IF last.msg.kind = "failed"
                               THEN Strip(last.trace[r].ret) ELSE <<>>)
        /\ last.file \notin files

\* call_module has raised for a non-zero status with a log to report.
C8_Witness ==
    /\ last.op = "call_module"
    /\ Calls("GMT_Call_Module") # {}
    /\ RetOf("GMT_Call_Module") # 0
    /\ last.msg.kind = "failed"
    /\ last.exc = GMTCLibError

C10_SingleSessionNoLeak ==
    /\ Cardinality(live) <= 1
    /\ scopes = <<>> => live = {}

====
